---- MODULE Spec2Model ----
(***************************************************************************)
(* Model of the parallel build orchestrator of catkin's cmi tool           *)
(* (python/catkin/cmi/build.py): the ready-set evaluator                   *)
(* get_ready_packages, the dispatcher queue_ready_packages, and the        *)
(* coordinator loop of build_isolated_workspace, together with the         *)
(* executors (catkin.cmi.executor) that consume the job queue and report   *)
(* on the communication queue.                                             *)
(***************************************************************************)
EXTENDS Integers, Sequences, FiniteSets, TLC

(***************************************************************************)
(* Bounds of the model.                                                    *)
(***************************************************************************)
\* largest number of packages found in the source space
MaxPackages == 2
\* largest value of the jobs argument (size of the executor pool)
MaxJobs == 2
\* largest pool of executors started on a workspace of one package
MaxPoolJobs == 8
\* largest number of packages handed to one call of get_ready_packages
MaxEvalPackages == 3

\* Python's None as the value of a start time
None == "None"
\* Python's None as the value of a package number (numbers start at 1)
NoNumber == 0
\* Python's None on the job queue (the kill signal) and as the unbound job
NoneJob == [job_type |-> "None", package |-> 0]
\* name of a dependency that is not a package of the workspace
External == 0
\* return codes a failing command may exit with
FailCodes == {1, 2}

VARIABLES
    context,            \* the build context: which spaces packages share
    devel_lock,         \* line 186
    install_lock,       \* line 188
    ordered_packages,   \* topologically ordered package names (line 176)
    build_type,         \* package name -> its build type tag
    depends,            \* package name -> declared build/buildtool depends
    jobs,               \* number of executors started (line 190)
    executors,          \* ids of the executors not yet joined (line 180)
    comm_queue,         \* executor id -> events it put that are not yet got
    job_queue,          \* jobs and kill signals, FIFO (line 184)
    worker,             \* executor id -> [state, job] of that executor
    running_jobs,       \* package name -> record (line 201)
    completed_packages, \* list of built package names (line 200)
    package_count,      \* number of job_started events seen (line 199)
    error_state,        \* line 208
    errors,             \* list of command_failed events (line 209)
    ready_packages,     \* result of the last get_ready_packages call
    failed_jobs,        \* history: the command_failed events executors put
    pc                  \* position of build_isolated_workspace

vars == <<context, devel_lock, install_lock, ordered_packages, build_type,
          depends, jobs, executors, comm_queue, job_queue,
          worker, running_jobs, completed_packages, package_count,
          error_state, errors, ready_packages, failed_jobs, pc>>

(***************************************************************************)
(* Helpers on sequences and functions.                                     *)
(***************************************************************************)
Range(s) == {s[i] : i \in 1..Len(s)}

\* number of kill signals in a job queue
RECURSIVE NumNone(_)
NumNone(q) ==
    IF q = <<>> THEN 0
    ELSE (IF Head(q) = NoneJob THEN 1 ELSE 0) + NumNone(Tail(q))

\* variant: the entry is kept
DictDel_keep(d, k) == d

\* del d[k] of a dict
DictDel(d, k) == [x \in (DOMAIN d) \ {k} |-> d[x]]

(***************************************************************************)
(* Collaborators of build.py (catkin.cmi.common, catkin.cmi.job).          *)
(***************************************************************************)
\* the depends found from the set found through packages of the workspace
RECURSIVE DependsClosure(_, _)
DependsClosure(found, workspace) ==
    LET more == found \cup UNION {depends[d] : d \in found \cap workspace}
    IN  IF more = found THEN found ELSE DependsClosure(more, workspace)

\* names of the packages of the workspace the package recursively depends on
\* for its build
get_cached_recursive_build_depends_in_workspace(package, workspace_packages) ==
    DependsClosure(depends[package], Range(workspace_packages))
        \cap Range(workspace_packages)

get_build_type(package) == build_type[package]

CatkinJob(package) == [job_type |-> "CatkinJob", package |-> package]
CMakeJob(package) == [job_type |-> "CMakeJob", package |-> package]

\* the job of a package of one of the two known build types
JobOf(p) == IF build_type[p] = "catkin" THEN CatkinJob(p) ELSE CMakeJob(p)

\* the commands of a job, and the directory they run in
Commands(job) == <<<<"make", job.package>>>>
Location(job) == <<"build_space", job.package>>

\* The locks: multiprocessing.Lock is held by at most one process, acquire
\* blocks while it is held; catkin.cmi.common.FakeLock has the same calls,
\* which do nothing.  holders are the executors between acquire and release.
FakeLock == [type |-> "FakeLock", holders |-> {}]
Lock == [type |-> "Lock", holders |-> {}]

CanAcquire(lock) == lock.type = "FakeLock" \/ lock.holders = {}
Acquire(lock, w) == [lock EXCEPT !.holders = @ \cup {w}]
Release(lock, w) == [lock EXCEPT !.holders = @ \ {w}]

\* The spaces a command writes to: the build output goes to the devel space,
\* which the packages share when the context merges it; an installing
\* build also writes to the install space, which the packages share.
WritesDevel(command) == context.merge_devel
WritesInstall(command) == context.install

\* the context of an isolated build without installation
IsolatedContext == [merge_devel |-> FALSE, install |-> FALSE]

(***************************************************************************)
(* get_ready_packages (lines 66-99).                                       *)
(***************************************************************************)
\* variant: the depends of a package are not looked at
get_ready_packages_any_depends(packages, running, completed) ==
    LET ready(package) ==
            package \notin (DOMAIN running) \cup Range(completed)
    IN  SelectSeq(packages, ready)

\* variant: only the running packages are skipped, not the completed ones
get_ready_packages_completed_again(packages, running, completed) ==
    LET ready(package) ==
            /\ package \notin DOMAIN running
            /\ get_cached_recursive_build_depends_in_workspace(
                   package, packages) \subseteq Range(completed)
    IN  SelectSeq(packages, ready)

\* variant: the loop over the packages is left at the first ready package
get_ready_packages_first_only(packages, running, completed) ==
    LET ready(package) ==
            /\ package \notin (DOMAIN running) \cup Range(completed)
            /\ get_cached_recursive_build_depends_in_workspace(
                   package, packages) \subseteq Range(completed)
        all == SelectSeq(packages, ready)
    IN  IF all = <<>> THEN <<>> ELSE <<Head(all)>>

get_ready_packages(packages, running, completed) ==
    LET workspace_packages == packages
        uncompleted_depends(package) ==
            {dep \in get_cached_recursive_build_depends_in_workspace(
                         package, workspace_packages) :
                 dep \notin Range(completed)}
        ready(package) ==
            /\ package \notin (DOMAIN running) \cup Range(completed)
            /\ uncompleted_depends(package) = {}
    IN  SelectSeq(packages, ready)

(***************************************************************************)
(* queue_ready_packages (lines 102-130).  The result holds the updated     *)
(* running_jobs and job_queue; raised is TRUE when the loop body stopped   *)
(* at a package whose build type bound no job (UnboundLocalError); job is  *)
(* the local variable of the loop, which keeps its value from one          *)
(* iteration to the next.                                                  *)
(***************************************************************************)
NewRecord(job) == [package_number |-> NoNumber, job |-> job, start_time |-> None]

RECURSIVE QueueLoop(_, _, _, _)
QueueLoop(ready, running, queue, job) ==
    IF ready = <<>> THEN [running_jobs |-> running, job_queue |-> queue,
                          raised |-> FALSE]
    ELSE LET package == Head(ready)
             tag == get_build_type(package)
             next_job == IF tag = "catkin" THEN CatkinJob(package)
                         ELSE IF tag = "cmake" THEN CMakeJob(package)
                         ELSE job
         IN  IF next_job = NoneJob
             THEN [running_jobs |-> running, job_queue |-> queue,
                   raised |-> TRUE]
             ELSE QueueLoop(Tail(ready),
                            [p \in (DOMAIN running) \cup {package} |->
                                IF p = package THEN NewRecord(next_job)
                                ELSE running[p]],
                            Append(queue, next_job),
                            next_job)

\* variant: for package in reversed(ready_packages)
queue_ready_packages_reversed(ready, running, queue) ==
    QueueLoop([i \in 1..Len(ready) |-> ready[Len(ready) + 1 - i]],
              running, queue, NoneJob)

queue_ready_packages(ready, running, queue) ==
    QueueLoop(ready, running, queue, NoneJob)

\* variant: range(jobs - 1)
KillExecutors_one_short(queue, n) == queue \o [x \in 1..(n - 1) |-> NoneJob]

\* for x in range(jobs): job_queue.put(None)   (lines 238-239, 266-267)
KillExecutors(queue, n) == queue \o [x \in 1..n |-> NoneJob]

(***************************************************************************)
(* Events on the communication queue.  The queue delivers the events of    *)
(* one executor in the order this executor put them and promises no order  *)
(* between the events of two executors: comm_queue holds, for each         *)
(* executor, the events it put that the coordinator has not got yet, and a *)
(* get returns the oldest event of any executor.                           *)
(***************************************************************************)
ExecutorEvent(type, id, package, message) ==
    [event_type |-> type, executor_id |-> id, package |-> package,
     message |-> message]

LogTypes == {"log", "command_log", "command_started", "command_finished"}


(***************************************************************************)
(* Executors (catkin.cmi.executor.Executor): each gets one item from the   *)
(* job queue; on the kill signal it puts exit and ends; otherwise it puts  *)
(* job_started, runs the commands of the job in sequence (command_started, *)
(* then command_finished or command_failed), and puts job_finished after   *)
(* the last command.  A failed command ends the job without job_finished.  *)
(***************************************************************************)
Put(w, event) == comm_queue' = [comm_queue EXCEPT ![w] = Append(@, event)]

\* the executors run while build_isolated_workspace has not returned
Running == pc \in {"prime", "loop"}

Idle == [state |-> "get", job |-> NoneJob, step |-> 0]

ExecutorGet(w) ==
    /\ Running
    /\ worker[w].state = "get"
    /\ job_queue # <<>>
    /\ job_queue' = Tail(job_queue)
    /\ IF Head(job_queue) = NoneJob
       THEN /\ Put(w, ExecutorEvent("exit", w, 0, <<>>))
            /\ worker' = [worker EXCEPT ![w] =
                             [state |-> "exited", job |-> NoneJob, step |-> 0]]
       ELSE /\ Put(w, ExecutorEvent("job_started", w,
                                    Head(job_queue).package, <<>>))
            /\ worker' = [worker EXCEPT ![w] =
                             [state |-> "job", job |-> Head(job_queue),
                              step |-> 1]]
    /\ UNCHANGED <<context, devel_lock, install_lock,
                   ordered_packages, build_type, depends, jobs, executors,
                   running_jobs, completed_packages, package_count,
                   error_state, errors, ready_packages, failed_jobs, pc>>

ExecutorCommandStarted(w) ==
    /\ Running
    /\ worker[w].state = "job"
    /\ worker[w].step <= Len(Commands(worker[w].job))
    /\ LET command == Commands(worker[w].job)[worker[w].step]
       IN  /\ IF WritesDevel(command)
              THEN /\ CanAcquire(devel_lock)
                   /\ devel_lock' = Acquire(devel_lock, w)
              ELSE UNCHANGED devel_lock
           /\ IF WritesInstall(command)
              THEN /\ CanAcquire(install_lock)
                   /\ install_lock' = Acquire(install_lock, w)
              ELSE UNCHANGED install_lock
    /\ Put(w, ExecutorEvent("command_started", w, worker[w].job.package,
                            <<Commands(worker[w].job)[worker[w].step],
                              Location(worker[w].job)>>))
    /\ worker' = [worker EXCEPT ![w].state = "command"]
    /\ UNCHANGED <<context,
                   ordered_packages, build_type, depends, jobs, executors,
                   job_queue, running_jobs, completed_packages, package_count,
                   error_state, errors, ready_packages, failed_jobs, pc>>

ExecutorCommandFinished(w) ==
    /\ Running
    /\ worker[w].state = "command"
    /\ Put(w, ExecutorEvent("command_finished", w, worker[w].job.package,
                            <<Commands(worker[w].job)[worker[w].step], 0>>))
    /\ worker' = [worker EXCEPT ![w].state = "job", ![w].step = @ + 1]
    /\ devel_lock' = Release(devel_lock, w)
    /\ install_lock' = Release(install_lock, w)
    /\ UNCHANGED <<context,
                   ordered_packages, build_type, depends, jobs, executors,
                   job_queue, running_jobs, completed_packages, package_count,
                   error_state, errors, ready_packages, failed_jobs, pc>>

ExecutorCommandFailed(w) ==
    /\ Running
    /\ worker[w].state = "command"
    /\ \E retcode \in FailCodes :
         LET event == ExecutorEvent("command_failed", w,
                                    worker[w].job.package,
                                    <<Commands(worker[w].job)[worker[w].step],
                                      retcode, Location(worker[w].job)>>)
         IN  /\ Put(w, event)
             /\ failed_jobs' = failed_jobs \cup {event}
    /\ worker' = [worker EXCEPT ![w] = Idle]
    /\ devel_lock' = Release(devel_lock, w)
    /\ install_lock' = Release(install_lock, w)
    /\ UNCHANGED <<context,
                   ordered_packages, build_type, depends, jobs, executors,
                   job_queue, running_jobs, completed_packages, package_count,
                   error_state, errors, ready_packages, pc>>

ExecutorJobFinished(w) ==
    /\ Running
    /\ worker[w].state = "job"
    /\ worker[w].step > Len(Commands(worker[w].job))
    /\ Put(w, ExecutorEvent("job_finished", w, worker[w].job.package, <<>>))
    /\ worker' = [worker EXCEPT ![w] = Idle]
    /\ UNCHANGED <<context, devel_lock, install_lock,
                   ordered_packages, build_type, depends, jobs, executors,
                   job_queue, running_jobs, completed_packages, package_count,
                   error_state, errors, ready_packages, failed_jobs, pc>>

(***************************************************************************)
(* build_isolated_workspace (lines 133-304).                               *)
(***************************************************************************)
\* time.time()
Now == "time"

\* while executors:   (line 212)
LoopRuns(execs) == execs # {}

\* Prime the job_queue (lines 203-206), then reach the loop
Prime ==
    /\ pc = "prime"
    /\ LET ready == get_ready_packages(ordered_packages, running_jobs,
                                       completed_packages)
           queued == queue_ready_packages(ready, running_jobs, job_queue)
       IN  /\ ready_packages' = ready
           /\ running_jobs' = queued.running_jobs
           /\ job_queue' = queued.job_queue
           /\ pc' = IF queued.raised THEN "raised"
                    ELSE IF DOMAIN queued.running_jobs = {}
                         THEN "assert_failed"
                    ELSE IF LoopRuns(executors) THEN "loop" ELSE "done"
    /\ UNCHANGED <<context, devel_lock, install_lock,
                   ordered_packages, build_type, depends, jobs, executors,
                   comm_queue, worker, completed_packages, package_count,
                   error_state, errors, failed_jobs>>

\* item = comm_queue.get(True, 0.1) returns an event of the executor w
Get(w, types) ==
    /\ pc = "loop"
    /\ comm_queue[w] # <<>>
    /\ Head(comm_queue[w]).event_type \in types
    /\ comm_queue' = [comm_queue EXCEPT ![w] = Tail(@)]

\* lines 216-228
OnLog(w) ==
    /\ Get(w, LogTypes)
    /\ UNCHANGED <<context, devel_lock, install_lock,
                   ordered_packages, build_type, depends, jobs, executors,
                   job_queue, worker, running_jobs, completed_packages,
                   package_count, error_state, errors, ready_packages,
                   failed_jobs, pc>>

\* variant: only the first failure is kept
RecordError_first_only(errs, event) ==
    IF errs = <<>> THEN <<event>> ELSE errs

\* errors.append(item)   (line 233)
RecordError(errs, event) == Append(errs, event)

\* lines 230-241
OnCommandFailed(w) ==
    /\ Get(w, {"command_failed"})
    /\ LET event == Head(comm_queue[w])
       IN  /\ errors' = RecordError(errors, event)
           /\ IF event.package \notin DOMAIN running_jobs
              THEN /\ pc' = "raised"
                   /\ UNCHANGED <<running_jobs, job_queue, error_state>>
              ELSE /\ running_jobs' = DictDel(running_jobs, event.package)
                   /\ IF ~error_state
                      THEN /\ job_queue' = KillExecutors(job_queue, jobs)
                           /\ error_state' = TRUE
                      ELSE UNCHANGED <<job_queue, error_state>>
                   /\ pc' = pc
    /\ UNCHANGED <<context, devel_lock, install_lock,
                   ordered_packages, build_type, depends, jobs, executors,
                   worker, completed_packages, package_count, ready_packages,
                   failed_jobs>>

\* variant: the dict is cleared
JoinExecutor_all(execs, id) == {}

\* del executors[item.executor_id]   (line 245)
JoinExecutor(execs, id) == execs \ {id}

\* lines 243-245, and the loop condition that follows
OnExit(w) ==
    /\ Get(w, {"exit"})
    /\ LET event == Head(comm_queue[w])
       IN  IF event.executor_id \notin executors
           THEN /\ pc' = "raised"
                /\ UNCHANGED executors
           ELSE /\ executors' = JoinExecutor(executors, event.executor_id)
                /\ pc' = IF LoopRuns(executors') THEN "loop" ELSE "done"
    /\ UNCHANGED <<context, devel_lock, install_lock,
                   ordered_packages, build_type, depends, jobs, job_queue,
                   worker, running_jobs, completed_packages, package_count,
                   error_state, errors, ready_packages, failed_jobs>>

\* variant: the number is taken before package_count is incremented
OnJobStarted_count_after(w) ==
    /\ Get(w, {"job_started"})
    /\ LET event == Head(comm_queue[w])
       IN  /\ package_count' = package_count + 1
           /\ IF event.package \notin DOMAIN running_jobs
              THEN /\ pc' = "raised"
                   /\ UNCHANGED running_jobs
              ELSE /\ running_jobs' =
                        [running_jobs EXCEPT
                            ![event.package].package_number = package_count,
                            ![event.package].start_time = Now]
                   /\ pc' = pc
    /\ UNCHANGED <<context, devel_lock, install_lock,
                   ordered_packages, build_type, depends, jobs, executors,
                   job_queue, worker, completed_packages, error_state, errors,
                   ready_packages, failed_jobs>>

\* lines 247-251
OnJobStarted(w) ==
    /\ Get(w, {"job_started"})
    /\ LET event == Head(comm_queue[w])
       IN  /\ package_count' = package_count + 1
           /\ IF event.package \notin DOMAIN running_jobs
              THEN /\ pc' = "raised"
                   /\ UNCHANGED running_jobs
              ELSE /\ running_jobs' =
                        [running_jobs EXCEPT
                            ![event.package].package_number = package_count',
                            ![event.package].start_time = Now]
                   /\ pc' = pc
    /\ UNCHANGED <<context, devel_lock, install_lock,
                   ordered_packages, build_type, depends, jobs, executors,
                   job_queue, worker, completed_packages, error_state, errors,
                   ready_packages, failed_jobs>>

\* variant: new packages are added while shutting down
AfterJobFinished_always(err, packages, running, completed, queue, ready, n) ==
    LET new_ready == get_ready_packages(packages, running, completed)
        queued == queue_ready_packages(new_ready, running, queue)
    IN  [ready_packages |-> new_ready,
         running_jobs |-> queued.running_jobs,
         job_queue |-> IF ~queued.raised /\ DOMAIN queued.running_jobs = {}
                       THEN KillExecutors(queued.job_queue, n)
                       ELSE queued.job_queue,
         raised |-> queued.raised]

\* lines 258-267: what follows the removal of the finished job's record
AfterJobFinished(err, packages, running, completed, queue, ready, n) ==
    IF err
    THEN [ready_packages |-> ready, running_jobs |-> running,
          job_queue |-> queue, raised |-> FALSE]
    ELSE LET new_ready == get_ready_packages(packages, running, completed)
             queued == queue_ready_packages(new_ready, running, queue)
         IN  [ready_packages |-> new_ready,
              running_jobs |-> queued.running_jobs,
              job_queue |-> IF ~queued.raised
                               /\ DOMAIN queued.running_jobs = {}
                            THEN KillExecutors(queued.job_queue, n)
                            ELSE queued.job_queue,
              raised |-> queued.raised]

\* lines 253-267
OnJobFinished(w) ==
    /\ Get(w, {"job_finished"})
    /\ LET event == Head(comm_queue[w])
       IN  /\ completed_packages' = Append(completed_packages, event.package)
           /\ IF \/ event.package \notin DOMAIN running_jobs
                 \/ running_jobs[event.package].start_time = None
              THEN /\ pc' = "raised"
                   /\ UNCHANGED <<running_jobs, job_queue, ready_packages>>
              ELSE LET after == AfterJobFinished(
                                    error_state, ordered_packages,
                                    DictDel(running_jobs, event.package),
                                    completed_packages', job_queue,
                                    ready_packages, jobs)
                   IN  /\ ready_packages' = after.ready_packages
                       /\ running_jobs' = after.running_jobs
                       /\ job_queue' = after.job_queue
                       /\ pc' = IF after.raised THEN "raised" ELSE pc
    /\ UNCHANGED <<context, devel_lock, install_lock,
                   ordered_packages, build_type, depends, jobs, executors,
                   worker, package_count, error_state, errors, failed_jobs>>

\* except Empty: the get timed out, nothing changes   (lines 268-270)
Timeout ==
    /\ pc = "loop"
    /\ UNCHANGED <<context, devel_lock, install_lock,
                   ordered_packages, build_type, depends, jobs, executors,
                   comm_queue, job_queue, worker, running_jobs,
                   completed_packages, package_count, error_state, errors,
                   ready_packages, failed_jobs, pc>>

\* variant: the interrupt dispatches the kill signal before it leaves
Interrupt_with_kill ==
    /\ pc = "loop"
    /\ pc' = "interrupted"
    /\ job_queue' = KillExecutors(job_queue, jobs)
    /\ UNCHANGED <<context, devel_lock, install_lock,
                   ordered_packages, build_type, depends, jobs, executors,
                   comm_queue, worker, running_jobs, completed_packages,
                   package_count, error_state, errors, ready_packages,
                   failed_jobs>>

\* except KeyboardInterrupt: break   (lines 271-273); the interrupt reaches
\* the coordinator while it waits in comm_queue.get, between two handlers
Interrupt ==
    /\ pc = "loop"
    /\ pc' = "interrupted"
    /\ UNCHANGED <<context, devel_lock, install_lock,
                   ordered_packages, build_type, depends, jobs, executors,
                   comm_queue, job_queue, worker, running_jobs,
                   completed_packages, package_count, error_state, errors,
                   ready_packages, failed_jobs>>

\* the status line of an iteration (lines 275-285): the running packages
\* that have a number, in the order of their numbers
StatusLine ==
    LET started == {p \in DOMAIN running_jobs :
                       ~(running_jobs[p].package_number = NoNumber
                         \/ running_jobs[p].start_time = None)}
    IN  {<<running_jobs[p].package_number, Len(ordered_packages), p>> :
            p \in started}

\* lines 292-304: what is reported once the loop is left
Result == IF errors = <<>> THEN "Finished" ELSE "There were errors"

(***************************************************************************)
(* The state before the job queue is primed (line 203): the packages are   *)
(* found and ordered, the executors are started.                           *)
(***************************************************************************)
\* the build type of a workspace whose packages have the two known types,
\* catkin and cmake
KnownBuildType(p) == IF p % 2 = 1 THEN "catkin" ELSE "cmake"

StartIn(c, n, j) ==
    /\ context = c
    /\ devel_lock = FakeLock
    /\ install_lock = Lock
    /\ ordered_packages = [i \in 1..n |-> i]
    /\ jobs = j
    /\ executors = 0..(j - 1)
    /\ comm_queue = [w \in 0..(j - 1) |-> <<>>]
    /\ worker = [w \in 0..(j - 1) |-> Idle]
    /\ job_queue = <<>>
    /\ running_jobs = <<>>
    /\ completed_packages = <<>>
    /\ package_count = 0
    /\ error_state = FALSE
    /\ errors = <<>>
    /\ ready_packages = <<>>
    /\ failed_jobs = {}
    /\ pc = "prime"

Start(n, j) == StartIn(IsolatedContext, n, j)

\* the depends of a topologically ordered workspace of n packages
Workspaces(n, names) ==
    {d \in [1..n -> SUBSET names] :
        \A p \in 1..n : d[p] \subseteq {External} \cup 1..(p - 1)}

Init ==
    \E n \in 1..MaxPackages, j \in 0..MaxJobs :
        /\ Start(n, j)
        /\ build_type = [p \in 1..n |-> KnownBuildType(p)]
        /\ depends \in Workspaces(n, 1..n)

ExecutorNext ==
    \/ \E w \in DOMAIN worker : ExecutorGet(w)
    \/ \E w \in DOMAIN worker : ExecutorCommandStarted(w)
    \/ \E w \in DOMAIN worker : ExecutorCommandFinished(w)
    \/ \E w \in DOMAIN worker : ExecutorCommandFailed(w)
    \/ \E w \in DOMAIN worker : ExecutorJobFinished(w)

CoordinatorNext ==
    \/ Prime
    \/ \E w \in DOMAIN comm_queue : OnLog(w)
    \/ \E w \in DOMAIN comm_queue : OnCommandFailed(w)
    \/ \E w \in DOMAIN comm_queue : OnExit(w)
    \/ \E w \in DOMAIN comm_queue : OnJobStarted(w)
    \/ \E w \in DOMAIN comm_queue : OnJobFinished(w)
    \/ Timeout

Next == ExecutorNext \/ CoordinatorNext \/ Interrupt

Spec == Init /\ [][Next]_vars

(***************************************************************************)
(* Runs with larger pools of executors, on small workspaces.               *)
(***************************************************************************)
PoolInit ==
    \/ Init
    \/ \E j \in 1..MaxPoolJobs :
          /\ Start(1, j)
          /\ build_type = [p \in 1..1 |-> KnownBuildType(p)]
          /\ depends \in Workspaces(1, 1..1)

PoolSpec == PoolInit /\ [][Next]_vars


(***************************************************************************)
(* Runs in which no command fails and no interrupt is delivered, with the  *)
(* executors and the coordinator scheduled fairly: a step that can be      *)
(* taken is eventually taken.                                              *)
(***************************************************************************)
LiveNext ==
    \/ \E w \in DOMAIN worker : ExecutorGet(w)
    \/ \E w \in DOMAIN worker : ExecutorCommandStarted(w)
    \/ \E w \in DOMAIN worker : ExecutorCommandFinished(w)
    \/ \E w \in DOMAIN worker : ExecutorJobFinished(w)
    \/ Prime
    \/ \E w \in DOMAIN comm_queue : OnLog(w)
    \/ \E w \in DOMAIN comm_queue : OnExit(w)
    \/ \E w \in DOMAIN comm_queue : OnJobStarted(w)
    \/ \E w \in DOMAIN comm_queue : OnJobFinished(w)
    \/ Timeout

LiveSpec == Init /\ [][LiveNext]_vars /\ WF_vars(LiveNext)

(***************************************************************************)
(* The priming of the job queue alone (lines 203-206), on workspaces whose *)
(* packages may depend on packages outside the workspace.                  *)
(***************************************************************************)
PrimeInit ==
    \E n \in 1..MaxEvalPackages, j \in 0..MaxJobs :
        /\ Start(n, j)
        /\ build_type = [p \in 1..n |-> KnownBuildType(p)]
        /\ depends \in Workspaces(n, {External} \cup 1..n)

PrimeSpec == PrimeInit /\ [][Prime]_vars

(***************************************************************************)
(* Calls of get_ready_packages on any packages, running jobs and completed *)
(* list: two calls in a row.                                               *)
(***************************************************************************)
\* the names of a set of packages, as a list in the order of the workspace
ListOf(names, n) == SelectSeq([i \in 1..n |-> i], LAMBDA p : p \in names)

EvalInit ==
    \E n \in 1..MaxEvalPackages :
        /\ Start(n, 0)
        /\ build_type = [p \in 1..n |-> KnownBuildType(p)]
        /\ depends \in Workspaces(n, {External} \cup 1..n)

\* running_jobs and completed_packages as a caller may hand them over
EvalArguments ==
    /\ pc = "prime"
    /\ \E r \in SUBSET Range(ordered_packages), c \in SUBSET Range(ordered_packages) :
          /\ running_jobs' = [p \in r |-> NewRecord(JobOf(p))]
          /\ completed_packages' = ListOf(c, Len(ordered_packages))
    /\ pc' = "call"
    /\ UNCHANGED <<context, devel_lock, install_lock,
                   ordered_packages, build_type, depends, jobs, executors,
                   comm_queue, job_queue, worker, package_count, error_state,
                   errors, ready_packages, failed_jobs>>

\* ready_packages = get_ready_packages(ordered_packages, running_jobs,
\*                                     completed_packages)
EvalCall ==
    /\ pc \in {"call", "called"}
    /\ ready_packages' = get_ready_packages(ordered_packages, running_jobs,
                                            completed_packages)
    /\ pc' = IF pc = "call" THEN "called" ELSE "called again"
    /\ UNCHANGED <<context, devel_lock, install_lock,
                   ordered_packages, build_type, depends, jobs, executors,
                   comm_queue, job_queue, worker, running_jobs,
                   completed_packages, package_count, error_state, errors,
                   failed_jobs>>

EvalSpec == EvalInit /\ [][EvalArguments \/ EvalCall]_vars

(***************************************************************************)
(* The run in every context: the devel space merged or not, with or        *)
(* without installation.                                                   *)
(***************************************************************************)
LockInit ==
    \E n \in 1..MaxPackages, j \in 0..MaxJobs :
        \E c \in [merge_devel : BOOLEAN, install : BOOLEAN] :
            /\ StartIn(c, n, j)
            /\ build_type = [p \in 1..n |-> KnownBuildType(p)]
            /\ depends \in Workspaces(n, 1..n)

LockSpec == LockInit /\ [][Next]_vars

(***************************************************************************)
(* The run with an event channel that delivers an event a second time, or  *)
(* after the record of its package was removed (at most one such event is  *)
(* in the channel at a time).                                              *)
(***************************************************************************)
\* the event types whose handler looks the package up in running_jobs
RecordTypes == {"job_started", "job_finished", "command_failed"}

\* the packages whose running record was removed
RemovedPackages ==
    (Range(completed_packages) \cup {errors[i].package : i \in DOMAIN errors})
        \ DOMAIN running_jobs

\* the event names a package that has no running record
IsLate(event) ==
    /\ event.event_type \in RecordTypes
    /\ event.package \notin DOMAIN running_jobs

LatePending ==
    \E w \in DOMAIN comm_queue : \E i \in DOMAIN comm_queue[w] :
        IsLate(comm_queue[w][i])

PutLateEvent(w) ==
    /\ pc = "loop"
    /\ w \in executors
    /\ ~LatePending
    /\ \E type \in RecordTypes : \E package \in RemovedPackages :
          Put(w, ExecutorEvent(type, w, package,
                               IF type = "command_failed"
                               THEN <<Commands(JobOf(package))[1], 1,
                                      Location(JobOf(package))>>
                               ELSE <<>>))
    /\ UNCHANGED <<context, devel_lock, install_lock,
                   ordered_packages, build_type, depends, jobs, executors,
                   job_queue, worker, running_jobs, completed_packages,
                   package_count, error_state, errors, ready_packages,
                   failed_jobs, pc>>

LateEventNext == Next \/ \E w \in DOMAIN comm_queue : PutLateEvent(w)

LateEventSpec == Init /\ [][LateEventNext]_vars

(***************************************************************************)
(* Runs in which commands may fail and no interrupt is delivered, with the *)
(* executors and the coordinator scheduled fairly.                         *)
(***************************************************************************)
FairNext == ExecutorNext \/ CoordinatorNext

FairSpec == Init /\ [][FairNext]_vars /\ WF_vars(FairNext)

(***************************************************************************)
(* Priming over workspaces whose packages have any build type, among them  *)
(* one that is neither catkin nor cmake.                                   *)
(***************************************************************************)
BuildTypes == {"catkin", "cmake", "other"}

BuildTypeInit ==
    \E n \in 1..MaxEvalPackages, j \in 0..1 :
        /\ Start(n, j)
        /\ build_type \in [1..n -> BuildTypes]
        /\ depends \in Workspaces(n, 1..n)

BuildTypeSpec == BuildTypeInit /\ [][Prime]_vars

(***************************************************************************)
(* Properties.                                                             *)
(***************************************************************************)
\* the packages of the workspace
Workspace == Range(ordered_packages)

\* the in-workspace transitive build/buildtool dependency closure of p
DependsInWorkspace(p) ==
    get_cached_recursive_build_depends_in_workspace(p, ordered_packages)

\* the items a step put on the job queue (a step that puts gets nothing)
PutOnJobQueue ==
    IF Len(job_queue') > Len(job_queue)
    THEN {job_queue'[i] : i \in (Len(job_queue) + 1)..Len(job_queue')}
    ELSE {}

\* the event the coordinator got in a step, as a set (empty: none)
GotEvents ==
    {Head(comm_queue[w]) : w \in {x \in DOMAIN comm_queue :
                                     /\ comm_queue[x] # <<>>
                                     /\ comm_queue'[x] = Tail(comm_queue[x])}}

\* C1: a package is given a running record, and its job is put on the job
\* queue, only in a step after which every package of its in-workspace
\* transitive dependency closure is in the completed list.
C1_DispatchedAfterDepends ==
    [][/\ \A p \in (DOMAIN running_jobs') \ (DOMAIN running_jobs) :
             DependsInWorkspace(p) \subseteq Range(completed_packages')
       /\ \A job \in PutOnJobQueue \ {NoneJob} :
             /\ DependsInWorkspace(job.package)
                    \subseteq Range(completed_packages')
             /\ job.package \in DOMAIN running_jobs']_vars

\* a package with depends in the workspace has been dispatched
C1_Witness ==
    \E p \in DOMAIN running_jobs : DependsInWorkspace(p) # {}

\* C2: no package name is both a key of running_jobs and in the completed
\* list; the completed list only grows by appending, and a name is appended
\* only in the step that gets that package's job_finished event.
C2_RunningCompletedDisjoint ==
    /\ [](DOMAIN running_jobs \cap Range(completed_packages) = {})
    /\ [][\/ completed_packages' = completed_packages
          \/ \E event \in GotEvents :
                /\ event.event_type = "job_finished"
                /\ completed_packages' =
                       Append(completed_packages, event.package)]_vars

\* a package is completed while another one is running
C2_Witness ==
    /\ completed_packages # <<>>
    /\ DOMAIN running_jobs # {}

\* C3: a step that puts kill signals on the job queue puts as many of them
\* as there are executors in the executors dict at that moment.
C3_KillSignalPerExecutor ==
    [][(NoneJob \in PutOnJobQueue) =>
          (executors' = executors /\
           NumNone(job_queue') - NumNone(job_queue) = Cardinality(executors))
      ]_vars

\* the largest pool has been sent its kill signals after a failed command
C3_Witness ==
    /\ jobs = MaxPoolJobs
    /\ error_state
    /\ NumNone(job_queue) = MaxPoolJobs

\* C4: once a command_failed event has been got, error_state is set and
\* stays set, and from then on no step adds a key to running_jobs, puts
\* anything on the job queue or evaluates the ready packages again; a
\* job_finished got in error_state appends the package to the completed list
\* and deletes its record.
C4_NoDispatchInErrorState ==
    /\ [](errors # <<>> => error_state)
    /\ [][error_state =>
            /\ error_state'
            /\ DOMAIN running_jobs' \subseteq DOMAIN running_jobs
            /\ PutOnJobQueue = {}
            /\ ready_packages' = ready_packages
            /\ \A event \in GotEvents :
                  event.event_type = "job_finished" =>
                     /\ completed_packages' =
                            Append(completed_packages, event.package)
                     /\ running_jobs' = DictDel(running_jobs, event.package)
       ]_vars

\* a job finished in error_state: the ready packages are still those of the
\* priming
C4_Witness ==
    /\ error_state
    /\ completed_packages # <<>>
    /\ Len(ready_packages) = 2

\* C5: when the loop is left because no executor remains, the result is
\* "Finished" exactly when no job reported a failed command; the errors are
\* exactly the command_failed events the executors put, one per package at
\* most, each with a command of that package's job, its return code and its
\* directory; and after a failure no kill signal is left on the job queue
\* (one was put, and got, for each executor).
C5_ErrorsAreTheFailures ==
    pc = "done" =>
        /\ (Result = "Finished") <=> (failed_jobs = {})
        /\ Range(errors) = failed_jobs
        /\ \A i, k \in 1..Len(errors) :
              errors[i].package = errors[k].package => i = k
        /\ \A i \in 1..Len(errors) :
              /\ errors[i].message[1] \in Range(Commands(JobOf(errors[i].package)))
              /\ errors[i].message[2] \in FailCodes
              /\ errors[i].message[3] = Location(JobOf(errors[i].package))
        /\ errors # <<>> =>
              /\ NumNone(job_queue) = 0
              /\ \A w \in DOMAIN worker : worker[w].state = "exited"

\* the loop was left after two packages failed, one with return code 2
C5_Witness ==
    /\ pc = "done"
    /\ Len(errors) = 2
    /\ errors[1].message[2] = 2

\* the completed list holds every package after the packages it depends on
CompletedInDependsOrder ==
    \A i \in 1..Len(completed_packages) :
        DependsInWorkspace(completed_packages[i])
            \subseteq {completed_packages[k] : k \in 1..(i - 1)}

\* C6: with at least one executor, no failed command and no interrupt, under
\* fair scheduling the loop is eventually left with every package of the
\* workspace completed and the result "Finished"; the completed list always
\* holds a package after its in-workspace depends; a package is dispatched
\* only once its depends are completed, so that for X and Y depending on X
\* the completed list ends as <<X, Y>>.
C6_EveryPackageCompleted ==
    /\ (jobs >= 1) =>
          <>[](/\ pc = "done"
               /\ Range(completed_packages) = Workspace
               /\ Len(completed_packages) = Len(ordered_packages)
               /\ Result = "Finished")
    /\ [](CompletedInDependsOrder)
    /\ [](\A p \in DOMAIN running_jobs :
             DependsInWorkspace(p) \subseteq Range(completed_packages))
    /\ [](/\ pc = "done"
          /\ jobs >= 1
          /\ Len(ordered_packages) = 2
          /\ depends[2] = {1}
          => completed_packages = <<1, 2>>)

\* X and Y depending on X are both completed, in this order
C6_Witness ==
    /\ pc = "done"
    /\ Len(ordered_packages) = 2
    /\ depends[2] = {1}
    /\ completed_packages = <<1, 2>>

\* C7: the loop is left as done only with no executor in the executors dict,
\* and it goes on only while there is one; an executor is removed from the
\* dict only in the step that gets the exit event this executor put; when
\* the loop is left as done after no command failed, every package is in the
\* completed list (each job_finished was got before the last exit).
C7_LoopLeftWhenNoExecutor ==
    /\ [](pc = "done" => executors = {})
    /\ [](pc = "loop" => executors # {})
    /\ [][executors' # executors =>
            \E w \in executors :
               /\ executors' = executors \ {w}
               /\ worker[w].state = "exited"
               /\ comm_queue[w] # <<>>
               /\ Head(comm_queue[w]).event_type = "exit"
               /\ Head(comm_queue[w]).executor_id = w
               /\ comm_queue'[w] = Tail(comm_queue[w])
               /\ pc' = IF executors' = {} THEN "done" ELSE "loop"]_vars
    /\ [](pc = "done" /\ jobs >= 1 /\ failed_jobs = {} =>
             Range(completed_packages) = Workspace)

\* two executors have built two independent packages and the loop is left
C7_Witness ==
    /\ pc = "done"
    /\ jobs = 2
    /\ Len(ordered_packages) = 2
    /\ depends[2] = {}
    /\ Len(completed_packages) = 2
    /\ \A w \in DOMAIN worker : worker[w].state = "exited"

\* C8: an interrupt can be delivered in every state of the loop; the step
\* that delivers it leaves the loop and changes nothing else (no kill signal
\* is put, no executor is removed, running_jobs and the completed list are
\* as they were); after it no further step is taken.
C8_InterruptLeavesAtOnce ==
    /\ [](pc = "loop" => ENABLED Interrupt)
    /\ [][pc' = "interrupted" =>
            /\ pc = "loop"
            /\ UNCHANGED <<executors, comm_queue, job_queue, worker,
                           running_jobs, completed_packages, package_count,
                           error_state, errors, ready_packages>>]_vars
    /\ [][pc # "interrupted"]_vars

\* the interrupt was delivered while a package was being built
C8_Witness ==
    /\ pc = "interrupted"
    /\ executors # {}
    /\ \E p \in DOMAIN running_jobs : running_jobs[p].package_number # NoNumber
    /\ \E w \in DOMAIN worker : worker[w].state = "command"
    /\ NumNone(job_queue) = 0

\* C9: the priming gives every package without a depend in the workspace a
\* place in the ready packages, a running record and a job on the job queue,
\* whatever the number of executors; running_jobs is not empty after it and
\* the assertion of line 206 holds.
C9_PrimingDispatchesRoots ==
    [][pc = "prime" =>
          /\ \A p \in Workspace :
                depends[p] \cap Workspace = {} =>
                   /\ p \in Range(ready_packages')
                   /\ p \in DOMAIN running_jobs'
                   /\ \E i \in 1..Len(job_queue') : job_queue'[i].package = p
          /\ DOMAIN running_jobs' # {}
          /\ pc' \in {"loop", "done"}]_vars

\* two packages that only depend on a package outside the workspace were
\* dispatched by the priming, the third was not
C9_Witness ==
    /\ pc \in {"loop", "done"}
    /\ Len(ordered_packages) = 3
    /\ depends[1] = {External}
    /\ depends[2] = {External}
    /\ DOMAIN running_jobs = {1, 2}

RECURSIVE IsSubsequence(_, _)
IsSubsequence(s, t) ==
    IF s = <<>> THEN TRUE
    ELSE IF t = <<>> THEN FALSE
    ELSE IF Head(s) = Head(t) THEN IsSubsequence(Tail(s), Tail(t))
    ELSE IsSubsequence(s, Tail(t))

\* the jobs (kill signals left out) a step put on the job queue, in the
\* order of the puts
JobsPut ==
    IF Len(job_queue') > Len(job_queue)
    THEN SelectSeq(SubSeq(job_queue', Len(job_queue) + 1, Len(job_queue')),
                   LAMBDA job : job # NoneJob)
    ELSE <<>>

\* the step evaluated the ready packages: priming, or a job_finished event
\* got outside error state
Evaluated ==
    \/ pc = "prime"
    \/ /\ ~error_state
       /\ \E event \in GotEvents : event.event_type = "job_finished"

\* C11: the ready list is a subsequence of ordered_packages (the topological
\* order); a step that evaluates puts on the job queue exactly one job per
\* ready package, each built for that package, in the order of the ready
\* list, behind what the queue already held; a step that does not evaluate
\* puts no job; and an executor that gets from the job queue gets its head.
C11_ReadyInTopologicalOrder ==
    /\ [](IsSubsequence(ready_packages, ordered_packages))
    /\ [][IF Evaluated
          THEN /\ JobsPut = [i \in 1..Len(ready_packages') |->
                                JobOf(ready_packages'[i])]
               /\ SubSeq(job_queue', 1, Len(job_queue)) = job_queue
          ELSE JobsPut = <<>>]_vars
    /\ [][\A w \in DOMAIN worker :
             worker[w].state = "get" /\ worker'[w].state # "get"
                 => /\ job_queue # <<>>
                    /\ job_queue' = Tail(job_queue)
                    /\ \/ worker'[w].job = Head(job_queue)
                       \/ Head(job_queue) = NoneJob]_vars

\* two packages became ready in one evaluation and the job of the first is
\* at the head of the job queue, the job of the second behind it
C11_Witness ==
    /\ Len(ready_packages) = 2
    /\ job_queue = <<JobOf(ready_packages[1]), JobOf(ready_packages[2])>>
    /\ ready_packages[1] < ready_packages[2]

\* C12: a step that gets a job_started, job_finished or command_failed event
\* naming a package without a running record raises nothing and leaves
\* running_jobs, completed_packages, errors, error_state and the job queue
\* as they were.
C12_LateEventIsNoOp ==
    [][\A event \in GotEvents :
          IsLate(event) =>
              /\ pc' # "raised"
              /\ UNCHANGED <<running_jobs, completed_packages, errors,
                             error_state, job_queue>>]_vars

\* the executors inside a command that writes to the devel space shared by
\* the packages, and to the install space
DevelWriters ==
    {w \in DOMAIN worker :
        /\ worker[w].state = "command"
        /\ WritesDevel(Commands(worker[w].job)[worker[w].step])}

InstallWriters ==
    {w \in DOMAIN worker :
        /\ worker[w].state = "command"
        /\ WritesInstall(Commands(worker[w].job)[worker[w].step])}

\* C13: for the shared devel space and for the install space, at most one
\* executor is inside a command that writes to it; the lock of the space is
\* held by at most one executor, and only by one inside such a command (so
\* an executor whose command ended holds no lock).
C13_OneWriterPerSpace ==
    /\ Cardinality(DevelWriters) <= 1
    /\ Cardinality(InstallWriters) <= 1
    /\ Cardinality(devel_lock.holders) <= 1
    /\ Cardinality(install_lock.holders) <= 1
    /\ devel_lock.holders \subseteq DevelWriters
    /\ install_lock.holders \subseteq InstallWriters

\* the install space alone: its lock is held by the one executor that writes
\* to it, and by none once the command ended
InstallSpaceLocked ==
    /\ Cardinality(InstallWriters) <= 1
    /\ install_lock.holders = InstallWriters

\* C14: without an interrupt every fairly scheduled run, whether commands
\* fail or not, leaves the loop normally and stays there with the executors
\* dict empty (so from every state, also one with kill signals on the job
\* queue, the executors dict eventually becomes empty); an executor ends
\* only by getting a kill signal from the head of the job queue, gets
\* nothing after it, and when the loop is left every executor has ended and
\* no kill signal is left on the job queue (each executor got exactly one).
C14_TerminatesAlsoOnFailure ==
    /\ <>[](pc = "done" /\ executors = {})
    /\ [][\A w \in DOMAIN worker :
             /\ worker[w].state = "exited" => worker'[w].state = "exited"
             /\ worker[w].state # "exited" /\ worker'[w].state = "exited"
                    => /\ job_queue # <<>>
                       /\ Head(job_queue) = NoneJob
                       /\ NumNone(job_queue') = NumNone(job_queue) - 1]_vars
    /\ [](pc = "done" =>
              /\ executors = {}
              /\ \A w \in DOMAIN worker : worker[w].state = "exited"
              /\ NumNone(job_queue) = 0)

\* the loop was left after the jobs of two packages failed
C14_Witness ==
    /\ pc = "done"
    /\ jobs >= 1
    /\ Len(errors) = 2
    /\ errors[1].package # errors[2].package

\* the packages whose command_failed event was handled
FailedPackages == {errors[i].package : i \in DOMAIN errors}

\* the packages that have, or had, a running record
DispatchedPackages ==
    DOMAIN running_jobs \cup Range(completed_packages) \cup FailedPackages

\* the state of a package, and its position in the order of the states
PackageState(p, running, completed, failed) ==
    IF p \in completed THEN "Completed"
    ELSE IF p \in failed THEN "Failed"
    ELSE IF p \in running THEN "Running"
    ELSE IF DependsInWorkspace(p) \subseteq completed THEN "Ready"
    ELSE "NotReady"

StateRank(state) ==
    CASE state = "NotReady" -> 0
      [] state = "Ready" -> 1
      [] state = "Running" -> 2
      [] state \in {"Completed", "Failed"} -> 3

\* C15: a package is given a running record, and a job of it is put on the
\* job queue, only if it never had a record (it is neither running nor
\* completed nor failed), and one step puts at most one job per package; a
\* failed package is neither running nor completed, and is not in a newly
\* evaluated ready list; no package that has or had a record depends,
\* directly or transitively, on a failed package; and the state of a package
\* never moves backward, Completed and Failed being final.
C15_DispatchedAtMostOnce ==
    /\ [][/\ \A p \in (DOMAIN running_jobs') \ (DOMAIN running_jobs) :
                p \notin DispatchedPackages
          /\ \A job \in PutOnJobQueue \ {NoneJob} :
                /\ job.package \notin DispatchedPackages
                /\ Cardinality({i \in (Len(job_queue) + 1)..Len(job_queue') :
                                   job_queue'[i] # NoneJob
                                   /\ job_queue'[i].package = job.package})
                       = 1
          /\ ready_packages' # ready_packages
                => Range(ready_packages') \cap FailedPackages' = {}]_vars
    /\ [](\A p \in FailedPackages :
             p \notin DOMAIN running_jobs \cup Range(completed_packages))
    /\ [](\A p \in DispatchedPackages :
             DependsInWorkspace(p) \cap FailedPackages = {})
    /\ [][\A p \in Workspace :
             LET old == PackageState(p, DOMAIN running_jobs,
                                     Range(completed_packages),
                                     FailedPackages)
                 new == PackageState(p, DOMAIN running_jobs',
                                     Range(completed_packages'),
                                     FailedPackages')
             IN  /\ StateRank(old) <= StateRank(new)
                 /\ StateRank(old) = 3 => new = old]_vars

\* a package failed, a package that depends on it was never dispatched, and
\* the loop was left
C15_Witness ==
    /\ pc = "done"
    /\ \E p \in FailedPackages : \E q \in Workspace :
          /\ p \in DependsInWorkspace(q)
          /\ q \notin DispatchedPackages

\* C16: whenever the loop was left, by the executors dict being empty or by
\* the interrupt, and the run reports "Finished" (errors is empty), every
\* package of the workspace is in the completed list.
C16_FinishedMeansAllCompleted ==
    pc \in {"done", "interrupted"} /\ Result = "Finished"
        => Range(completed_packages) = Workspace

\* the same for the runs with at least one executor that leave the loop by
\* the executors dict being empty
FinishedWithExecutors ==
    pc = "done" /\ jobs >= 1 /\ Result = "Finished"
        => Range(completed_packages) = Workspace

\* the kill signals are put at most once, no job is behind a kill signal
OneBroadcast ==
    /\ [][(NoneJob \in PutOnJobQueue) =>
             /\ NoneJob \notin Range(job_queue)
             /\ \A w \in DOMAIN worker : worker[w].state # "exited"]_vars
    /\ [](\A i \in DOMAIN job_queue : \A j \in DOMAIN job_queue :
             i < j /\ job_queue[i] = NoneJob => job_queue[j] = NoneJob)

\* nothing is left: the job queue and the event channel are empty and no
\* package has a running record
NothingLeft ==
    /\ job_queue = <<>>
    /\ \A w \in DOMAIN comm_queue : comm_queue[w] = <<>>
    /\ DOMAIN running_jobs = {}

\* C17: the kill signals are put at most once in a run and no job is ever
\* put behind a kill signal; and when the loop is left because the executors
\* dict is empty, the job queue holds no job and no kill signal, the event
\* channel holds no event, and no package has a running record.
C17_NothingLeftBehind ==
    /\ OneBroadcast
    /\ [](pc = "done" => NothingLeft)

\* the same for the runs with at least one executor
NothingLeftWithExecutors ==
    /\ OneBroadcast
    /\ [](pc = "done" /\ jobs >= 1 => NothingLeft)

\* the running packages that have a package_number
Numbered == {p \in DOMAIN running_jobs :
                running_jobs[p].package_number # NoNumber}

\* C18: package_count changes only in the step that gets a job_started
\* event, by one, and the new count is the number given to the package of
\* the event, which had none (so the numbers are 1, 2, 3, ... in the order
\* in which job_started events are got, and no number is given twice); the
\* number of a record changes in no other step; no number exceeds the number
\* of packages; the running records have different numbers; a record has a
\* number exactly if it has a start time, it has neither when it is created
\* and both once its job_started was got; and the status line shows exactly
\* the records with a number.
C18_PackageNumbers ==
    /\ [][/\ \/ package_count' = package_count
             \/ /\ package_count' = package_count + 1
                /\ \E event \in GotEvents :
                      /\ event.event_type = "job_started"
                      /\ event.package \in DOMAIN running_jobs
                      /\ running_jobs[event.package].package_number = NoNumber
                      /\ running_jobs'[event.package].package_number
                             = package_count'
                      /\ running_jobs'[event.package].start_time # None
          /\ \A p \in DOMAIN running_jobs \cap DOMAIN running_jobs' :
                \/ running_jobs'[p].package_number
                       = running_jobs[p].package_number
                \/ /\ running_jobs[p].package_number = NoNumber
                   /\ \E event \in GotEvents :
                         /\ event.event_type = "job_started"
                         /\ event.package = p
          /\ \A p \in (DOMAIN running_jobs') \ (DOMAIN running_jobs) :
                /\ running_jobs'[p].package_number = NoNumber
                /\ running_jobs'[p].start_time = None]_vars
    /\ [](/\ package_count <= Len(ordered_packages)
          /\ \A p \in Numbered :
                /\ running_jobs[p].package_number \in 1..package_count
                /\ \A q \in Numbered :
                      running_jobs[p].package_number
                          = running_jobs[q].package_number => p = q
          /\ \A p \in DOMAIN running_jobs :
                running_jobs[p].package_number = NoNumber
                    <=> running_jobs[p].start_time = None
          /\ StatusLine = {<<running_jobs[p].package_number,
                             Len(ordered_packages), p>> : p \in Numbered})

\* two packages are running with the numbers 1 and 2, in the order in which
\* their job_started events were got
C18_Witness ==
    /\ Cardinality(Numbered) = 2
    /\ package_count = 2
    /\ \E p \in Numbered : running_jobs[p].package_number = 1
    /\ StatusLine # {}

\* the executors that run a job
Executing == {w \in DOMAIN worker : worker[w].state \in {"job", "command"}}

\* C19: the executors that run a job at the same time are at most jobs many,
\* each runs one job, and no two run the job of the same package; and in
\* every state the running records with a package_number are at most as
\* many as the executors not yet joined (running_jobs itself may hold more
\* records than there are executors).
C19_AtMostJobsAtOnce ==
    /\ Cardinality(Executing) <= jobs
    /\ \A v \in Executing : \A w \in Executing :
          worker[v].job.package = worker[w].job.package => v = w
    /\ Cardinality(Numbered) <= Cardinality(executors)

\* running_jobs holds more records than there are executors, one of them
\* with a number
C19_Witness ==
    /\ Cardinality(DOMAIN running_jobs) > Cardinality(executors)
    /\ Cardinality(Numbered) = 1
    /\ Cardinality(Executing) = jobs

\* C20: whatever the build types of the ready packages, the record stored
\* under a package name holds a job built for that package, every job on
\* the job queue is the job of the record of the package it was built for,
\* and no job is on the queue twice (a job belongs to one package).
C20_JobOfTheSamePackage ==
    /\ \A p \in DOMAIN running_jobs : running_jobs[p].job.package = p
    /\ \A i \in DOMAIN job_queue :
          job_queue[i] # NoneJob =>
              /\ job_queue[i].package \in DOMAIN running_jobs
              /\ running_jobs[job_queue[i].package].job = job_queue[i]
              /\ \A j \in DOMAIN job_queue :
                    job_queue[j] = job_queue[i] => i = j

====
